---- MODULE Spec2Model ----
(***************************************************************************)
(* A model of the Pudu Cloud wrapper: the PuduClient of src/pudu_client.py *)
(* (construction, the signed request, close) and the process-level glue of *)
(* src/main.py that owns it (the memoized client factory and the shutdown  *)
(* handler).                                                               *)
(*                                                                         *)
(* Python strings that the code takes apart (URLs, paths, query strings,   *)
(* JSON text) are sequences of one-character strings, so that startswith,  *)
(* split, rstrip, urlparse, unquote and parse_qs are computed character by *)
(* character as the library computes them.  Strings the code only passes   *)
(* on or tests for emptiness (key, secret, locale) are TLA+ strings.       *)
(* An Optional value is a record [some, v]; None is [some |-> FALSE].      *)
(* MD5, HMAC-SHA1, base64 and hex are free constructors (tagged tuples):   *)
(* equal outputs exactly for equal inputs.                                 *)
(***************************************************************************)
EXTENDS Integers, Sequences, FiniteSets, TLC

VARIABLES
    settings,   \* Settings read from the environment (main.py:21-37)
    cache,      \* the lru_cache of get_pudu_client (main.py:40)
    clients,    \* every PuduClient constructed so far, in order
    calls,      \* the request handlings: idle, in flight or done
    now,        \* the wall clock, in seconds
    shutdowns,  \* how many times the shutdown handler has run
    last_close, \* what the last run of the shutdown handler did
    fn_arg,     \* argument of a pure function under check
    fn_res      \* its result

vars == <<settings, cache, clients, calls, now, shutdowns, last_close,
          fn_arg, fn_res>>

----------------------------------------------------------------------------
(* Bounds of the model *)

MaxCalls == 2
MaxClock == 1
MaxShutdowns == 2
MaxSegs == 3
MaxFields == 3

----------------------------------------------------------------------------
(* Character strings *)

\* The characters the model's inputs are written in, in code point order.
Alphabet ==
    << " ", "\"", "#", "%", "&", "+", ",", "/", "0", "1", "2", "3", "5",
       "6", ":", "=", "?", "D", "a", "b", "c", "d", "e", "g", "h", "i",
       "l", "n", "p", "r", "s", "t", "u", "x", "{", "}" >>

Ord(c) == CHOOSE i \in 1..Len(Alphabet) : Alphabet[i] = c

Take(s, n) == SubSeq(s, 1, n)
Drop(s, n) == SubSeq(s, n + 1, Len(s))

StartsWith(s, p) == Len(p) <= Len(s) /\ Take(s, Len(p)) = p

\* The first index in s of a character of cs, 0 when there is none.
FindAny(s, cs) ==
    IF \E i \in 1..Len(s) : s[i] \in cs
    THEN CHOOSE i \in 1..Len(s) :
             s[i] \in cs /\ \A j \in 1..(i - 1) : s[j] \notin cs
    ELSE 0

\* str.find for one character
Find(s, c) == FindAny(s, {c})

\* s cut at index i: what is before it and what is after it (i = 0: no cut)
CutAt(s, i) ==
    IF i = 0 THEN [found |-> FALSE, head |-> s, tail |-> << >>]
    ELSE [found |-> TRUE, head |-> Take(s, i - 1), tail |-> Drop(s, i)]

\* str.partition(c): s cut at the first occurrence of c
partition(s, c) == CutAt(s, Find(s, c))

\* str.split(c): the pieces of s between the occurrences of c.
RECURSIVE SplitCut(_, _)
Split(s, c) == SplitCut(partition(s, c), c)
SplitCut(p, c) ==
    IF p.found THEN << p.head >> \o Split(p.tail, c) ELSE << p.head >>

\* str.split(c, 1): at most one split, at the first occurrence of c.
Split1Cut(p) == IF p.found THEN << p.head, p.tail >> ELSE << p.head >>
Split1(s, c) == Split1Cut(partition(s, c))

\* sep.join(parts)
RECURSIVE Join(_, _)
Join(parts, sep) ==
    IF parts = << >> THEN << >>
    ELSE IF Len(parts) = 1 THEN parts[1]
    ELSE parts[1] \o sep \o Join(Tail(parts), sep)

\* str.rstrip(c)
RECURSIVE RStrip(_, _)
RStrip(s, c) ==
    IF s # << >> /\ s[Len(s)] = c THEN RStrip(Take(s, Len(s) - 1), c) ELSE s

\* Python's order on strings: by code point, a proper prefix first.
StrLess(a, b) ==
    \E i \in 1..(Len(b)) :
        /\ i <= Len(a) + 1
        /\ \A j \in 1..(i - 1) : a[j] = b[j]
        /\ (i = Len(a) + 1 \/ Ord(a[i]) < Ord(b[i]))

----------------------------------------------------------------------------
(* urllib.parse *)

\* The percent escapes of the alphabet's reserved characters.
PctTable ==
    ( << "2", "6" >> :> "&" ) @@ ( << "3", "D" >> :> "=" ) @@
    ( << "2", "5" >> :> "%" ) @@ ( << "2", "0" >> :> " " )

\* urllib.parse.unquote: every %XX escape is replaced by its character, one
\* left-to-right pass; a '%' that starts no escape is kept.
RECURSIVE unquote(_)
unquote(s) ==
    IF s = << >> THEN << >>
    ELSE IF s[1] = "%" /\ Len(s) >= 3 /\ << s[2], s[3] >> \in DOMAIN PctTable
    THEN << PctTable[<< s[2], s[3] >>] >> \o unquote(Drop(s, 3))
    ELSE << s[1] >> \o unquote(Tail(s))

\* str.replace("+", " ")
PlusToSpace(s) == [i \in 1..Len(s) |-> IF s[i] = "+" THEN " " ELSE s[i]]

\* One field name[=value] of a query string, cut at its first '=': '+'
\* becomes a space and the escapes of name and value are decoded; a field
\* without '=' has the blank value.
qsl_pair(nv) == << unquote(PlusToSpace(nv.head)), unquote(PlusToSpace(nv.tail)) >>

\* urllib.parse.parse_qsl(qs, keep_blank_values=True): the (name, value)
\* pairs in order of occurrence.  Empty fields between '&' are skipped.
qsl_fields(fields) ==
    [i \in 1..Len(fields) |-> qsl_pair(partition(fields[i], "="))]
parse_qsl(qs) == qsl_fields(SelectSeq(Split(qs, "&"), LAMBDA f : f # << >>))

\* urllib.parse.urlparse, for URLs without userinfo, port or params:
\* scheme ':' '//' netloc path '?' query '#' fragment.
url_scheme(url, c) ==
    IF c.found /\ c.head # << >> /\ FindAny(c.head, {"/", "?", "#"}) = 0
    THEN [scheme |-> c.head, rest |-> c.tail]
    ELSE [scheme |-> << >>, rest |-> url]

url_netloc_cut(after, i) ==
    IF i = 0 THEN [netloc |-> after, rest |-> << >>]
    ELSE [netloc |-> Take(after, i - 1), rest |-> Drop(after, i - 1)]

url_netloc(rest) ==
    IF StartsWith(rest, << "/", "/" >>)
    THEN url_netloc_cut(Drop(rest, 2), FindAny(Drop(rest, 2), {"/", "?", "#"}))
    ELSE [netloc |-> << >>, rest |-> rest]

url_parts(scheme, n, pq) ==
    [ scheme   |-> scheme,
      hostname |-> [some |-> n.netloc # << >>, v |-> n.netloc],
      path     |-> pq.head,
      query    |-> pq.tail ]

url_rest(scheme, n) ==
    url_parts(scheme, n, partition(partition(n.rest, "#").head, "?"))

url_split(s) == url_rest(s.scheme, url_netloc(s.rest))

urlparse(url) == url_split(url_scheme(url, partition(url, ":")))

----------------------------------------------------------------------------
(* PuduClient._normalize_query *)

\* Sorted in descending order
RECURSIVE Sorted_descending(_)
Sorted_descending(K) ==
    IF K = {} THEN << >>
    ELSE LET m == CHOOSE k \in K : \A o \in K \ {k} : StrLess(o, k)
         IN  << m >> \o Sorted_descending(K \ {m})

\* sorted(keys) for a set of strings
RECURSIVE Sorted(_)
SortedFrom(K, m) == << m >> \o Sorted(K \ {m})
Sorted(K) ==
    IF K = {} THEN << >>
    ELSE SortedFrom(K, CHOOSE k \in K : \A o \in K \ {k} : StrLess(k, o))

\* parse_qs: the values of one key, in order of occurrence
ValuesIn(mine) == [i \in 1..Len(mine) |-> mine[i][2]]
ValuesOf(pairs, key) == ValuesIn(SelectSeq(pairs, LAMBDA p : p[1] = key))

\* query_part with the '=' kept for a key without values
query_part_keeping_equals(key, values) ==
    key \o << "=" >> \o Join(values, << "," >>)

\* One part of the normal form: key=v1,v2 for the non-blank values of the
\* key, the bare key when it has none.
query_part(key, values) ==
    IF values # << >> THEN key \o << "=" >> \o Join(values, << "," >>)
    ELSE key

query_parts(pairs, keys) ==
    [i \in 1..Len(keys) |->
        query_part(keys[i],
                   SelectSeq(ValuesOf(pairs, keys[i]), LAMBDA v : v # << >>))]

normalize_pairs(pairs) ==
    Join(query_parts(pairs, Sorted({pairs[i][1] : i \in 1..Len(pairs)})),
         << "&" >>)

normalize_query(query) ==
    IF query = << >> THEN << >> ELSE normalize_pairs(parse_qsl(query))

----------------------------------------------------------------------------
(* The signing path *)

S_release == << "/", "r", "e", "l", "e", "a", "s", "e" >>
S_test    == << "/", "t", "e", "s", "t" >>
S_prepub  == << "/", "p", "r", "e", "p", "u", "b" >>

\* path.startswith(("/release", "/test", "/prepub"))
HasEnvPrefix(path) ==
    StartsWith(path, S_release) \/ StartsWith(path, S_test)
        \/ StartsWith(path, S_prepub)

\* "/" + parts[1] for parts = path[1:].split("/", 1): the list has no
\* element [1] when nothing follows the first segment, and the subscript
\* raises IndexError.
second_part(parts) ==
    IF Len(parts) < 2 THEN [raised |-> TRUE, path |-> << >>]
    ELSE [raised |-> FALSE, path |-> << "/" >> \o parts[2]]

strip_env_prefix(path) ==
    IF HasEnvPrefix(path) THEN second_part(Split1(Tail(path), "/"))
    ELSE [raised |-> FALSE, path |-> path]

\* path = f"{path}?{normalized_query}", only for a normal form that is
\* not empty
append_query(stripped, nq) ==
    IF stripped.raised \/ nq = << >> THEN stripped
    ELSE [raised |-> FALSE, path |-> stripped.path \o << "?" >> \o nq]

\* The path line of the signing string: url_info.path or "/", stripped,
\* then the normalized query of the unquoted raw query.
signing_path_of(url_info) ==
    append_query(
        strip_env_prefix(IF url_info.path = << >> THEN << "/" >>
                         ELSE url_info.path),
        IF url_info.query # << >> THEN normalize_query(unquote(url_info.query))
        ELSE << >>)

signing_path(url) == signing_path_of(urlparse(url))

----------------------------------------------------------------------------
(* Body, digest and signature *)

NoBody == [some |-> FALSE, v |-> << >>]
SomeBody(items) == [some |-> TRUE, v |-> items]

NoLang == [some |-> FALSE, v |-> ""]
SomeLang(tag) == [some |-> TRUE, v |-> tag]

NoText == [some |-> FALSE, v |-> << >>]
SomeText(t) == [some |-> TRUE, v |-> t]

Digit(n) == << "0", "1", "2", "3" >>[n + 1]

\* json.dumps(body, separators=(",", ":")) of a dict given as its items in
\* insertion order, each a <<key, integer>> pair.
json_item(kv) == << "\"", kv[1], "\"", ":", Digit(kv[2]) >>
json_dumps(items) ==
    << "{" >> \o Join([i \in 1..Len(items) |-> json_item(items[i])], << "," >>)
        \o << "}" >>

\* content_digest with the digest of the empty text for every body
content_digest_of_nothing(text) == << "b64", << "hex", << "md5", << >> >> >> >>

\* base64(ascii(hexdigest(md5(text))))
content_digest(text) == << "b64", << "hex", << "md5", text >> >> >>

\* strftime of a date kept from the first send of the process
strftime_kept(t) == << "GMT", 0 >>

\* datetime.utcnow().strftime("%a, %d %b %Y %H:%M:%S GMT"): the clock at a
\* resolution of one second.
strftime(t) == << "GMT", t >>

\* upper with the method left in the letter case it came in
upper_as_given(method) == method

\* str.upper for the methods of the model
upper(method) ==
    CASE method = "get"  -> "GET"
      [] method = "post" -> "POST"
      [] method = "put"  -> "PUT"
      [] OTHER           -> method

\* signing_string with a line more, the content type once again
signing_string_seven_lines(x_date, method, accept, content_type, content_md5, path) ==
    << << "x-date: ", x_date >>, method, accept, content_type, content_md5, path,
       content_type >>

\* "\n".join([...]): the six lines
signing_string(x_date, method, accept, content_type, content_md5, path) ==
    << << "x-date: ", x_date >>, method, accept, content_type, content_md5, path >>

\* base64(HMAC-SHA1(secret, signing_str))
signature(secret, signing_str) == << "b64", << "hmac-sha1", secret, signing_str >> >>

authorization_header(api_key, sig_b64) ==
    [ scheme |-> "hmac", id |-> api_key, algorithm |-> "hmac-sha1",
      headers |-> "x-date", signature |-> sig_b64 ]

----------------------------------------------------------------------------
(* PuduClient *)

NoClient ==
    [ api_key |-> "", api_secret |-> "", base_url |-> << >>,
      http |-> "none", close_calls |-> 0 ]

\* PuduClient_init without the check of the base URL
PuduClient_init_unchecked_url(api_key, api_secret, base_url) ==
    IF api_key = "" \/ api_secret = ""
    THEN [raised |-> TRUE, self |-> NoClient]
    ELSE [raised |-> FALSE,
          self   |-> [ api_key |-> api_key, api_secret |-> api_secret,
                       base_url |-> RStrip(base_url, "/"),
                       http |-> "open", close_calls |-> 0 ]]

\* PuduClient.__init__: raises ValueError before anything is assigned when
\* an argument is empty; otherwise keeps key and secret, the base URL
\* without its trailing slashes, and a new httpx.AsyncClient.
PuduClient_init(api_key, api_secret, base_url) ==
    IF api_key = "" \/ api_secret = "" \/ base_url = << >>
    THEN [raised |-> TRUE, self |-> NoClient]
    ELSE [raised |-> FALSE,
          self   |-> [ api_key |-> api_key, api_secret |-> api_secret,
                       base_url |-> RStrip(base_url, "/"),
                       http |-> "open", close_calls |-> 0 ]]

\* close raising for a client that is closed already
close_raising_when_closed(self) ==
    [raised |-> self.http = "closed",
     self   |-> [self EXCEPT !.http = "closed", !.close_calls = @ + 1]]

\* PuduClient.close: awaits httpx's aclose, which closes the transport
\* unless the client is closed already, and raises nothing either way.
close(self) ==
    [raised |-> FALSE,
     self   |-> [self EXCEPT !.http = "closed", !.close_calls = @ + 1]]

NoHeaders == [h \in {} |-> ""]

NoSent ==
    [ some |-> FALSE, verb |-> "", url |-> << >>, headers |-> NoHeaders,
      content |-> NoText ]

NoSigned == [some |-> FALSE, v |-> << >>]
Signed(signing_str) == [some |-> TRUE, v |-> signing_str]

\* The headers dict of _request
base_headers(host, x_date, authorization) ==
    [ Host |-> IF host.some THEN host.v ELSE << >>,
      Accept |-> "application/json",
      ContentType |-> "application/json",
      xdate |-> x_date,
      Authorization |-> authorization ]

\* if language: headers["Language"] = language
with_language(headers, language) ==
    IF language.some /\ language.v # ""
    THEN ("Language" :> language.v) @@ headers
    ELSE headers

\* dispatch with the request sent to the path that was signed
dispatch_signed_path(self, m, url, body_json, signing_str, headers) ==
    IF m = "GET"
    THEN [raised |-> "", signed |-> Signed(signing_str),
          sent   |-> [ some |-> TRUE, verb |-> "GET", url |-> signing_str[6],
                       headers |-> headers, content |-> NoText ]]
    ELSE IF m = "POST"
    THEN [raised |-> "", signed |-> Signed(signing_str),
          sent   |-> [ some |-> TRUE, verb |-> "POST", url |-> signing_str[6],
                       headers |-> headers, content |-> SomeText(body_json) ]]
    ELSE [raised |-> "ValueError", signed |-> Signed(signing_str),
          sent |-> NoSent]

\* dispatch with the body of a POST serialized once more for the request,
\* with json.dumps's default separators
dispatch_serialized_again(self, m, url, body_json, signing_str, headers) ==
    IF m = "GET"
    THEN [raised |-> "", signed |-> Signed(signing_str),
          sent   |-> [ some |-> TRUE, verb |-> "GET", url |-> url,
                       headers |-> headers, content |-> NoText ]]
    ELSE IF m = "POST"
    THEN [raised |-> "", signed |-> Signed(signing_str),
          sent   |-> [ some |-> TRUE, verb |-> "POST", url |-> url,
                       headers |-> headers,
                       content |-> SomeText(body_json \o << " " >>) ]]
    ELSE [raised |-> "ValueError", signed |-> Signed(signing_str),
          sent |-> NoSent]

\* The call of the HTTP client that ends _request's synchronous part: get
\* or post with the URL as given, or ValueError for any other method.
\* httpx refuses to send once the client is closed.
dispatch(self, m, url, body_json, signing_str, headers) ==
    IF m \in {"GET", "POST"} /\ self.http = "closed"
    THEN [raised |-> "ClientClosed", signed |-> Signed(signing_str),
          sent |-> NoSent]
    ELSE IF m = "GET"
    THEN [raised |-> "", signed |-> Signed(signing_str),
          sent   |-> [ some |-> TRUE, verb |-> "GET", url |-> url,
                       headers |-> headers, content |-> NoText ]]
    ELSE IF m = "POST"
    THEN [raised |-> "", signed |-> Signed(signing_str),
          sent   |-> [ some |-> TRUE, verb |-> "POST", url |-> url,
                       headers |-> headers, content |-> SomeText(body_json) ]]
    ELSE [raised |-> "ValueError", signed |-> Signed(signing_str),
          sent |-> NoSent]

\* The signature, the Authorization header and the headers of the request
sign_and_dispatch(self, m, url, language, x_date, host, body_json, signing_str) ==
    dispatch(self, m, url, body_json, signing_str,
        with_language(
            base_headers(host, x_date,
                authorization_header(self.api_key,
                    signature(self.api_secret, signing_str))),
            language))

\* digest_line with the digest computed for a non-empty body, whatever
\* the method
digest_line_if_body(m, body_json) ==
    IF body_json \notin {<< >>, << "{", "}" >>} THEN content_digest(body_json)
    ELSE << >>

\* content_md5 is "" unless the method is POST
digest_line(m, body_json) ==
    IF m = "POST" THEN content_digest(body_json) ELSE << >>

\* build_signing_string with the locale signed too
signing_string_with_locale(self, m, url, language, x_date, host, path, body_json) ==
    sign_and_dispatch(self, m, url, language, x_date, host, body_json,
        signing_string(x_date, m, "application/json", "application/json",
                       digest_line(m, body_json), path \o << language.v >>))

build_signing_string(self, m, url, language, x_date, host, path, body_json) ==
    sign_and_dispatch(self, m, url, language, x_date, host, body_json,
        signing_string(x_date, m, "application/json", "application/json",
                       digest_line(m, body_json), path))

\* body_json is "" unless the method is POST
serialize_body(self, m, url, language, x_date, host, sp, b) ==
    IF sp.raised
    THEN [raised |-> "IndexError", signed |-> NoSigned, sent |-> NoSent]
    ELSE build_signing_string(self, m, url, language, x_date, host, sp.path,
             IF m = "POST" THEN json_dumps(b) ELSE << >>)

\* PuduClient._request up to the await of the HTTP call, at clock t:
\* what it raised ("" when nothing), the string it signed, and what it
\* handed to the HTTP client.  method.upper(); body or {}; urlparse(url).
request(self, method, url, body, language, t) ==
    serialize_body(self, upper(method), url, language, strftime(t),
                   urlparse(url).hostname, signing_path(url),
                   IF body.some THEN body.v ELSE << >>)

\* The JSON documents a response body may hold.
JsonDocs == { << >>, << << "a", 1 >> >> }

\* Response.json(): the document whose text this is, or ValueError.
json_loads(text) ==
    IF \E d \in JsonDocs : json_dumps(d) = text
    THEN [ok |-> TRUE, value |-> CHOOSE d \in JsonDocs : json_dumps(d) = text]
    ELSE [ok |-> FALSE, value |-> << >>]

NoOutcome == [kind |-> "", status |-> 0, text |-> << >>, value |-> << >>]

Failure(kind) == [NoOutcome EXCEPT !.kind = kind]

\* parsed_or_raw letting the ValueError of json() through
parsed_or_raise(status, text, parsed) ==
    IF parsed.ok
    THEN [kind |-> "json", status |-> 0, text |-> << >>, value |-> parsed.value]
    ELSE Failure("ValueError")

\* try: return resp.json()  except ValueError: return {"raw": ..., ...}
parsed_or_raw(status, text, parsed) ==
    IF parsed.ok
    THEN [kind |-> "json", status |-> 0, text |-> << >>, value |-> parsed.value]
    ELSE [kind |-> "raw", status |-> status, text |-> text, value |-> << >>]

\* handle_response raising for the client and server errors only
handle_response_from_400(status, text) ==
    IF status >= 400
    THEN [kind |-> "RuntimeError", status |-> status, text |-> text,
          value |-> << >>]
    ELSE parsed_or_raw(status, text, json_loads(text))

\* PuduClient._request after the await: raise_for_status() raises for every
\* status outside 200..299, and the handler turns it into a RuntimeError
\* whose message holds the status code and the response text.
handle_response(status, text) ==
    IF status < 200 \/ status > 299
    THEN [kind |-> "RuntimeError", status |-> status, text |-> text,
          value |-> << >>]
    ELSE parsed_or_raw(status, text, json_loads(text))

----------------------------------------------------------------------------
(* Inputs *)

U_base == << "h", ":", "/", "/", "a", "/" >>

\* APP_KEY, APP_SECRET and PUDU_BASE_URL as the environment may set them
Keys     == {"", "k"}
Secrets  == {"", "s"}
BaseUrls == { << >>, << "/" >>, U_base }

P_x        == << "/", "x" >>
P_relx     == S_release \o P_x
P_testx    == S_test \o P_x
P_prepubx  == S_prepub \o P_x
P_testingx == S_test \o << "i", "n", "g" >> \o P_x
P_rel      == S_release
P_xrel     == P_x \o S_release

Q_none  == << >>
Q_ba    == << "b", "=", "2", "&", "a", "=", "1" >>
Q_ab    == << "a", "=", "1", "&", "b", "=", "2" >>
Q_blank == << "d", "=" >>
Q_eq    == << "=" >>
Q_multi == << "c", "=", "1", "&", "c", "=", "2" >>
Q_pct   == << "a", "=", "1", "%", "2", "6", "b", "=", "2" >>
Q_amp   == << "b", "=", "1", "%", "2", "6", "a", "=", "2" >>
Q_pct25 == << "a", "=", "%", "2", "5", "2", "5" >>

B_a  == << << "a", 1 >> >>
B_ab == << << "a", 1 >>, << "b", 2 >> >>
B_ba == << << "b", 2 >>, << "a", 1 >> >>

T_empty == << "{", "}" >>
T_a     == json_dumps(B_a)
T_bad   == << "x" >>

\* What the route handlers of main.py pass on
AppMethods   == {"GET", "POST"}
AppPaths     == {P_relx}
AppQueries   == {Q_none, Q_ba}
AppBodies    == {NoBody, SomeBody(B_a)}
AppLangs     == {NoLang, SomeLang("en")}
AppResponses ==
    [kind : {"response"}, status : {200, 500}, text : {T_a}]
        \cup {[kind |-> "error", status |-> 0, text |-> << >>]}

\* What a caller of _request may pass
AllMethods   == {"GET", "POST", "get", "post", "PUT"}
AllPaths     == {P_x, P_relx, P_testx, P_prepubx, P_testingx, P_rel, P_xrel}
AllQueries   == {Q_none, Q_ba, Q_ab, Q_blank, Q_eq, Q_multi, Q_pct, Q_amp,
                 Q_pct25}
AllBodies    == {NoBody, SomeBody(<< >>), SomeBody(B_a), SomeBody(B_ab),
                 SomeBody(B_ba)}
AllLangs     == {NoLang, SomeLang(""), SomeLang("en")}
AllResponses ==
    [kind : {"response"}, status : {199, 200, 204, 299, 300, 404, 500},
     text : {<< >>, T_empty, T_a, T_bad}]
        \cup {[kind |-> "error", status |-> 0, text |-> << >>]}

----------------------------------------------------------------------------
(* State *)

NoResp == [kind |-> "", status |-> 0, text |-> << >>]

IdleCall ==
    [ pc |-> "idle", client |-> 0, method |-> "", url |-> << >>,
      body |-> NoBody, language |-> NoLang, signed |-> NoSigned,
      sent |-> NoSent, dispatches |-> 0, resp |-> NoResp,
      outcome |-> NoOutcome ]

NoClose == [result |-> "", client |-> 0, was_closed |-> FALSE]

NoFn == [done |-> FALSE, raised |-> FALSE, path |-> << >>]

Init ==
    /\ settings \in [ pudu_api_key : Keys, pudu_api_secret : Secrets,
                      pudu_base_url : BaseUrls ]
    /\ cache = [kw |-> 0, pos |-> 0]
    /\ clients = << >>
    /\ calls = [i \in 1..MaxCalls |-> IdleCall]
    /\ now = 0
    /\ shutdowns = 0
    /\ last_close = NoClose
    /\ fn_arg = << >>
    /\ fn_res = NoFn

\* A PuduClient constructed by a cache miss, or the HTTPException(500)
\* raised for the constructor's ValueError (idx = 0).  A call that raises
\* caches nothing.
cache_miss(kind, made) ==
    IF made.raised
    THEN [idx |-> 0, cache |-> cache, clients |-> clients]
    ELSE [idx     |-> Len(clients) + 1,
          cache   |-> [cache EXCEPT ![kind] = Len(clients) + 1],
          clients |-> Append(clients, made.self)]

\* cache_key with one key for both kinds of call
cache_key_shared(kind) == "kw"

\* get_pudu_client under lru_cache.  The cache key of a call made with the
\* argument by keyword (how the framework calls a dependency: kind "kw")
\* differs from the key of a call made with it by position (how
\* shutdown_event calls it: kind "pos"), so each kind has its own entry.
cache_key(kind) == kind

get_pudu_client(kind) ==
    IF cache[cache_key(kind)] # 0
    THEN [idx |-> cache[cache_key(kind)], cache |-> cache, clients |-> clients]
    ELSE cache_miss(cache_key(kind),
                    PuduClient_init(settings.pudu_api_key,
                                    settings.pudu_api_secret,
                                    settings.pudu_base_url))

\* f"{self.base_url}{path}" and "?{query}" for a query
build_url(base_url, path, query) ==
    base_url \o path \o (IF query = << >> THEN << >> ELSE << "?" >> \o query)

\* The request handling after _request's synchronous part r
started(c, method, url, body, language, r) ==
    [ pc       |-> IF r.raised = "" THEN "inflight" ELSE "done",
      client   |-> c,
      method   |-> method,
      url      |-> url,
      body     |-> body,
      language |-> language,
      signed   |-> r.signed,
      sent     |-> r.sent,
      dispatches |-> IF r.sent.some THEN 1 ELSE 0,
      resp     |-> NoResp,
      outcome  |-> IF r.raised = "" THEN NoOutcome ELSE Failure(r.raised) ]

\* call_request with the URL kept in a place the concurrent calls share
call_request_shared_url(c, self, method, url, body, language) ==
    started(c, method, url, body, language,
            request(self, method,
                    IF \E j \in 1..MaxCalls : calls[j].pc = "inflight"
                    THEN calls[CHOOSE j \in 1..MaxCalls :
                                    calls[j].pc = "inflight"].url
                    ELSE url,
                    body, language, now))

\* _request works on its arguments, on locals and on the client's key and
\* secret, which nothing assigns after __init__.
call_request(c, self, method, url, body, language) ==
    started(c, method, url, body, language,
            request(self, method, url, body, language, now))

call_api(dep, method, path, query, body, language) ==
    IF dep.idx = 0
    THEN [IdleCall EXCEPT !.pc = "done", !.outcome = Failure("HTTPException")]
    ELSE call_request(dep.idx, dep.clients[dep.idx], method,
             build_url(dep.clients[dep.idx].base_url, path, query),
             body, language)

handle_with(i, dep, method, path, query, body, language) ==
    /\ cache' = dep.cache
    /\ clients' = dep.clients
    /\ calls' = [calls EXCEPT ![i] =
                    call_api(dep, method, path, query, body, language)]

\* A route handler: the framework resolves the client dependency, the
\* public method builds the URL from the base URL, the path and the raw
\* query, and _request runs up to its await.
handle_request(i, method, path, query, body, language) ==
    /\ calls[i].pc = "idle"
    /\ handle_with(i, get_pudu_client("kw"), method, path, query, body, language)
    /\ UNCHANGED << settings, now, shutdowns, last_close, fn_arg, fn_res >>

\* A response is possible only for a URL with a scheme and a host.
absolute(u) == u.scheme # << >> /\ u.hostname.some

\* completed with the HTTP call made once more after a transport error
completed_retrying(c, r) ==
    IF r.kind = "error" /\ c.dispatches < 2
    THEN [c EXCEPT !.dispatches = @ + 1]
    ELSE [IdleCall EXCEPT
             !.pc = "done",
             !.client = c.client,
             !.dispatches = c.dispatches,
             !.resp = r,
             !.outcome = IF r.kind = "error" THEN Failure("NetworkError")
                         ELSE handle_response(r.status, r.text)]

\* The request handling c after its HTTP call ended with r: the transport
\* error propagates as it is, a response goes through handle_response.
\* Nothing calls the HTTP client again.
completed(c, r) ==
    [IdleCall EXCEPT
        !.pc = "done",
        !.client = c.client,
        !.dispatches = c.dispatches,
        !.resp = r,
        !.outcome = IF r.kind = "error" THEN Failure("NetworkError")
                    ELSE handle_response(r.status, r.text)]

\* The HTTP call of an in-flight request ends: with a response, or with a
\* transport error (always so for a URL without scheme or host), which
\* _request lets through.  The locals of the request end with it.
respond(i, r) ==
    /\ calls[i].pc = "inflight"
    /\ r.kind = "response" => absolute(urlparse(calls[i].sent.url))
    /\ calls' = [calls EXCEPT ![i] = completed(calls[i], r)]
    /\ UNCHANGED << settings, cache, clients, now, shutdowns, last_close,
                    fn_arg, fn_res >>

\* The route handler returns (or raises) to the framework.
finish(i) ==
    /\ calls[i].pc = "done"
    /\ calls' = [calls EXCEPT ![i] = IdleCall]
    /\ UNCHANGED << settings, cache, clients, now, shutdowns, last_close,
                    fn_arg, fn_res >>

tick ==
    /\ now < MaxClock
    /\ now' = now + 1
    /\ UNCHANGED << settings, cache, clients, calls, shutdowns, last_close,
                    fn_arg, fn_res >>

InFlightOn(c) ==
    {i \in 1..MaxCalls : calls[i].pc = "inflight" /\ calls[i].client = c}

\* await client.close() on the client the factory gave (none for idx = 0:
\* the factory raised).  Closing an httpx client closes its pooled
\* connections, so any of the requests in flight on it may end there.
close_client(got) ==
    IF got.idx = 0
    THEN /\ clients' = got.clients
         /\ calls' = calls
         /\ last_close' = [result |-> "HTTPException", client |-> 0,
                           was_closed |-> FALSE]
    ELSE /\ clients' = [got.clients EXCEPT
                            ![got.idx] = close(got.clients[got.idx]).self]
         /\ last_close' =
                [result |-> IF close(got.clients[got.idx]).raised
                            THEN "RuntimeError" ELSE "ok",
                 client |-> got.idx,
                 was_closed |-> got.clients[got.idx].http = "closed"]
         /\ \E A \in SUBSET InFlightOn(got.idx) :
                calls' = [i \in 1..MaxCalls |->
                    IF i \in A
                    THEN [IdleCall EXCEPT
                             !.pc = "done",
                             !.client = calls[i].client,
                             !.dispatches = calls[i].dispatches,
                             !.outcome = Failure("Aborted")]
                    ELSE calls[i]]

shutdown_with(got) ==
    /\ cache' = got.cache
    /\ close_client(got)

\* shutdown_event: get_pudu_client(get_settings()), then await close().
shutdown_event ==
    /\ shutdowns < MaxShutdowns
    /\ shutdowns' = shutdowns + 1
    /\ shutdown_with(get_pudu_client("pos"))
    /\ UNCHANGED << settings, now, fn_arg, fn_res >>

\* The application: concurrent request handlings and the shutdown handler.
Next ==
    \/ \E i \in 1..MaxCalls, method \in AppMethods, path \in AppPaths,
          query \in AppQueries, body \in AppBodies, language \in AppLangs :
           handle_request(i, method, path, query, body, language)
    \/ \E i \in 1..MaxCalls, r \in AppResponses : respond(i, r)
    \/ \E i \in 1..MaxCalls : finish(i)
    \/ tick
    \/ shutdown_event

Spec == Init /\ [][Next]_vars

\* One request at a time, over every kind of argument _request may get.
NextSend ==
    \/ \E method \in AllMethods, path \in AllPaths, query \in AllQueries,
          body \in AllBodies, language \in AllLangs :
           handle_request(1, method, path, query, body, language)
    \/ \E r \in AllResponses : respond(1, r)
    \/ finish(1)
    \/ tick

SpecSend == Init /\ [][NextSend]_vars

----------------------------------------------------------------------------
(* The signing path as a function of the URL path *)

Segs ==
    { << >>, << "x" >>, Tail(S_release), Tail(S_test), Tail(S_prepub),
      Tail(S_test) \o << "i", "n", "g" >> }

\* Every path of 1..MaxSegs segments
GenPaths ==
    UNION { { << "/" >> \o Join(ss, << "/" >>) : ss \in [1..n -> Segs] } :
            n \in 1..MaxSegs }

InitPath ==
    /\ settings = [ pudu_api_key |-> "k", pudu_api_secret |-> "s",
                    pudu_base_url |-> U_base ]
    /\ cache = [kw |-> 0, pos |-> 0]
    /\ clients = << >>
    /\ calls = [i \in 1..MaxCalls |-> IdleCall]
    /\ now = 0
    /\ shutdowns = 0
    /\ last_close = NoClose
    /\ fn_arg \in GenPaths
    /\ fn_res = NoFn

fn_result(r) == [done |-> TRUE, raised |-> r.raised, path |-> r.path]

apply_strip ==
    /\ ~fn_res.done
    /\ fn_res' = fn_result(strip_env_prefix(fn_arg))
    /\ UNCHANGED << settings, cache, clients, calls, now, shutdowns,
                    last_close, fn_arg >>

SpecPath == InitPath /\ [][apply_strip]_vars

----------------------------------------------------------------------------
(* The normal form as a function of the query string *)

F_a1   == << "a", "=", "1" >>
F_a2   == << "a", "=", "2" >>
F_ab   == << "a" >>
F_a    == << "a", "=" >>
F_b2   == << "b", "=", "2" >>
F_b    == << "b", "=" >>
F_ab1  == << "a", "b", "=", "1" >>
F_eq   == << "=" >>
F_none == << >>

Fields == {F_a1, F_a2, F_ab, F_a, F_b2, F_b, F_ab1, F_eq, F_none}

\* Every query string of 1..MaxFields fields
GenQueries ==
    UNION { { Join(fs, << "&" >>) : fs \in [1..n -> Fields] } :
            n \in 1..MaxFields }

InitQuery ==
    /\ settings = [ pudu_api_key |-> "k", pudu_api_secret |-> "s",
                    pudu_base_url |-> U_base ]
    /\ cache = [kw |-> 0, pos |-> 0]
    /\ clients = << >>
    /\ calls = [i \in 1..MaxCalls |-> IdleCall]
    /\ now = 0
    /\ shutdowns = 0
    /\ last_close = NoClose
    /\ fn_arg \in GenQueries
    /\ fn_res = NoFn

apply_normalize ==
    /\ ~fn_res.done
    /\ fn_res' = fn_result([raised |-> FALSE, path |-> normalize_query(fn_arg)])
    /\ UNCHANGED << settings, cache, clients, calls, now, shutdowns,
                    last_close, fn_arg >>

SpecQuery == InitQuery /\ [][apply_normalize]_vars

----------------------------------------------------------------------------
(* Claims *)

Slots == 1..MaxCalls

Range(f) == { f[i] : i \in DOMAIN f }

AnyEmpty ==
    \/ settings.pudu_api_key = ""
    \/ settings.pudu_api_secret = ""
    \/ settings.pudu_base_url = << >>

\* C1: whatever requests were handled before the shutdown, only one
\* PuduClient is ever constructed, and once the shutdown handler has run,
\* the client that served the requests is closed, by exactly one close().
C1_OneClientClosedOnce ==
    /\ Len(clients) <= 1
    /\ (shutdowns = 1 /\ cache.kw # 0) =>
           /\ clients[cache.kw].http = "closed"
           /\ clients[cache.kw].close_calls = 1

\* C2: the URL handed to the HTTP client is the URL the caller built,
\* prefix and raw query included, also when the signed path differs from it.
C2_DispatchedUrlIsCallerUrl ==
    \A i \in Slots :
        calls[i].sent.some =>
            /\ calls[i].sent.url = calls[i].url
            /\ calls[i].signed.some

\* A request in flight to /release/x?b=2&a=1 whose signed path is
\* /x?a=1&b=2 while the URL sent keeps prefix and query as they were.
C2_Witness ==
    /\ calls[1].pc = "inflight"
    /\ calls[1].url = RStrip(U_base, "/") \o P_relx \o << "?" >> \o Q_ba
    /\ calls[1].sent.url = calls[1].url
    /\ calls[1].signed.v[6] = P_x \o << "?" >> \o Q_ab

FirstSegment(path) == partition(Tail(path), "/")

\* C3: the signing path computed for a path is the path without its first
\* segment exactly when that segment is release, test or prepub, with "/"
\* and what follows the segment left; every other path, /testing/x
\* included, is signed as it is.
C3_StripsExactlyTheMarkers ==
    (fn_res.done /\ ~fn_res.raised) =>
        IF FirstSegment(fn_arg).head
               \in {Tail(S_release), Tail(S_test), Tail(S_prepub)}
        THEN fn_res.path = << "/" >> \o FirstSegment(fn_arg).tail
        ELSE fn_res.path = fn_arg

\* C4: the digest line of the signing string is non-empty exactly when the
\* upper-cased method is POST, whatever body was passed.
C4_DigestIffPost ==
    \A i \in Slots :
        calls[i].signed.some =>
            (calls[i].signed.v[5] # << >> <=> upper(calls[i].method) = "POST")

\* A POST without a body that signs the digest of "{}", the case in which
\* a digest keyed on the body would be empty.
C4_Witness ==
    /\ calls[1].pc = "inflight"
    /\ calls[1].method = "post"
    /\ ~calls[1].body.some
    /\ calls[1].signed.v[5] = content_digest(T_empty)

\* What the same send signs and sends as Authorization with locale L
ResignedWith(c, L) ==
    request(clients[c.client], c.method, c.url, c.body, L,
            c.sent.headers.xdate[2])

LocaleLeavesSignatureAlone(c) ==
    \A L \in AllLangs :
        /\ ResignedWith(c, L).signed = c.signed
        /\ ResignedWith(c, L).sent.headers.Authorization
               = c.sent.headers.Authorization

\* C5 as stated: sends that differ only in the locale sign the same string
\* and send the same Authorization, and Language is a header of the request
\* exactly when a locale was passed.
C5_LanguageIffLocalePassed ==
    \A i \in Slots :
        calls[i].sent.some =>
            /\ LocaleLeavesSignatureAlone(calls[i])
            /\ ("Language" \in DOMAIN calls[i].sent.headers
                    <=> calls[i].language.some)

\* C5 as amended: the same, with Language a header exactly when a
\* non-empty locale was passed, and then holding that locale.
C5_LanguageIffLocaleNonEmpty ==
    \A i \in Slots :
        calls[i].sent.some =>
            /\ LocaleLeavesSignatureAlone(calls[i])
            /\ ("Language" \in DOMAIN calls[i].sent.headers
                    <=> (calls[i].language.some /\ calls[i].language.v # ""))
            /\ "Language" \in DOMAIN calls[i].sent.headers =>
                   calls[i].sent.headers.Language = calls[i].language.v
            /\ DOMAIN calls[i].sent.headers \ {"Language"} =
                   {"Host", "Accept", "ContentType", "xdate", "Authorization"}

\* A request in flight with the locale "en": the header is there, and the
\* string signed is the one signed without any locale.
C5_Witness ==
    /\ calls[1].pc = "inflight"
    /\ calls[1].language = SomeLang("en")
    /\ calls[1].sent.headers.Language = "en"
    /\ ResignedWith(calls[1], NoLang).signed = calls[1].signed

Answered(c) == c.pc = "done" /\ c.resp.kind = "response"

\* C6: a response with a status outside 200..299 ends the send in the
\* upstream error that holds this status and this body text, never in a
\* value.
C6_Non2xxIsUpstreamError ==
    \A i \in Slots :
        (Answered(calls[i])
            /\ (calls[i].resp.status < 200 \/ calls[i].resp.status > 299)) =>
                /\ calls[i].outcome.kind = "RuntimeError"
                /\ calls[i].outcome.status = calls[i].resp.status
                /\ calls[i].outcome.text = calls[i].resp.text

\* A 300 answered with a body: neither a client nor a server error.
C6_Witness ==
    /\ Answered(calls[1])
    /\ calls[1].resp.status = 300
    /\ calls[1].resp.text = T_bad
    /\ calls[1].outcome.kind = "RuntimeError"

\* C7: a 2xx response whose body is JSON gives the parsed document; a 2xx
\* response whose body is not JSON gives the fallback holding the raw text
\* and the status, and no failure.
C7_2xxParsedOrFallback ==
    \A i \in Slots :
        (Answered(calls[i])
            /\ calls[i].resp.status >= 200 /\ calls[i].resp.status <= 299) =>
                /\ calls[i].resp.text = T_a =>
                       /\ calls[i].outcome.kind = "json"
                       /\ calls[i].outcome.value = B_a
                /\ calls[i].resp.text = T_empty =>
                       /\ calls[i].outcome.kind = "json"
                       /\ calls[i].outcome.value = << >>
                /\ calls[i].resp.text \in {<< >>, T_bad} =>
                       /\ calls[i].outcome.kind = "raw"
                       /\ calls[i].outcome.text = calls[i].resp.text
                       /\ calls[i].outcome.status = calls[i].resp.status

\* A 204 without a body, returned as the fallback.
C7_Witness ==
    /\ Answered(calls[1])
    /\ calls[1].resp.status = 204
    /\ calls[1].resp.text = << >>
    /\ calls[1].outcome.kind = "raw"
    /\ calls[1].outcome.status = 204

\* C8: with an empty key, secret or base URL every construction fails (the
\* handlers get the error, no client and no HTTP client exists); with all
\* three non-empty construction succeeds.
C8_ConstructionNeedsAllThree ==
    /\ AnyEmpty =>
           /\ clients = << >>
           /\ cache = [kw |-> 0, pos |-> 0]
           /\ \A i \in Slots :
                  calls[i].pc # "idle" =>
                      /\ calls[i].pc = "done"
                      /\ calls[i].outcome.kind = "HTTPException"
                      /\ calls[i].client = 0
           /\ shutdowns > 0 => last_close.result = "HTTPException"
    /\ ~AnyEmpty =>
           /\ \A i \in Slots : calls[i].outcome.kind # "HTTPException"
           /\ shutdowns > 0 => last_close.result = "ok"
           /\ \A c \in 1..Len(clients) :
                  /\ clients[c].http # "none"
                  /\ clients[c].api_key = settings.pudu_api_key
                  /\ clients[c].api_secret = settings.pudu_api_secret

\* Key and secret are set and the base URL is empty: a request and the
\* shutdown handler both met the failure.
C8_Witness ==
    /\ settings.pudu_api_key # ""
    /\ settings.pudu_api_secret # ""
    /\ settings.pudu_base_url = << >>
    /\ calls[1].outcome.kind = "HTTPException"
    /\ last_close.result = "HTTPException"
    /\ clients = << >>

\* C9: a close() of a client that is closed already raises nothing and
\* leaves the client closed.
C9_CloseIsIdempotent ==
    last_close.was_closed =>
        /\ last_close.result = "ok"
        /\ clients[last_close.client].http = "closed"

\* The second close() of the same client has returned.
C9_Witness ==
    /\ last_close.was_closed
    /\ clients[last_close.client].close_calls = 2
    /\ clients[last_close.client].http = "closed"

C11_AtMostOneDispatch ==
    \A i \in Slots :
        /\ calls[i].dispatches <= 1
        /\ calls[i].pc = "inflight" =>
               (calls[i].dispatches = 1 /\ calls[i].sent.some)
        /\ calls[i].outcome.kind \in {"NetworkError", "RuntimeError"} =>
               calls[i].dispatches = 1

\* A send that ended in a connection failure after its one dispatch, and
\* another that ended in the upstream error for a 500.
C11_Witness ==
    /\ calls[1].pc = "done"
    /\ calls[1].outcome.kind = "NetworkError"
    /\ calls[1].dispatches = 1
    /\ calls[2].pc = "done"
    /\ calls[2].outcome.kind = "RuntimeError"
    /\ calls[2].dispatches = 1

\* C12: while sends are in flight together on one client, what each has
\* signed and dispatched (signing string, URL, headers, body) is what its
\* own method, URL, body and locale give at the date it carries; key and
\* secret of the client are those of the settings; and the outcome of a
\* send that ended is the one of the response or error it received.
C12_NoCrossTalk ==
    \A i \in Slots :
        /\ calls[i].pc = "inflight" =>
               /\ ResignedWith(calls[i], calls[i].language).signed
                      = calls[i].signed
               /\ ResignedWith(calls[i], calls[i].language).sent
                      = calls[i].sent
               /\ calls[i].sent.headers.Authorization.id
                      = settings.pudu_api_key
               /\ calls[i].sent.headers.Authorization.signature[2][2]
                      = settings.pudu_api_secret
        /\ calls[i].client # 0 =>
               /\ clients[calls[i].client].api_key = settings.pudu_api_key
               /\ clients[calls[i].client].api_secret
                      = settings.pudu_api_secret
        /\ (calls[i].pc = "done" /\ calls[i].resp.kind = "error") =>
               calls[i].outcome.kind = "NetworkError"
        /\ Answered(calls[i]) =>
               /\ calls[i].outcome.kind \in {"json", "raw", "RuntimeError"}
               /\ calls[i].outcome.kind = "RuntimeError" =>
                      calls[i].outcome.status = calls[i].resp.status

\* Two sends in flight together on the same client that differ in method,
\* query, body and locale, each carrying its own.
C12_Witness ==
    /\ calls[1].pc = "inflight"
    /\ calls[2].pc = "inflight"
    /\ calls[1].client = calls[2].client
    /\ calls[1].sent.verb = "GET"
    /\ calls[2].sent.verb = "POST"
    /\ calls[1].signed.v[6] = P_x
    /\ calls[2].signed.v[6] = P_x \o << "?" >> \o Q_ab
    /\ "Language" \notin DOMAIN calls[1].sent.headers
    /\ calls[2].language = SomeLang("en")
    /\ "Language" \in DOMAIN calls[2].sent.headers
    /\ calls[2].sent.content = SomeText(T_a)

\* The key of one field name[=value] of a query string
FieldKey(f) == partition(f, "=").head

\* The distinct keys of a query string
QueryKeys(q) ==
    { FieldKey(f) : f \in { g \in Range(Split(q, "&")) : g # << >> } }

\* The fields of q in the order p
Reordered(fields, p) == [i \in 1..Len(fields) |-> fields[p[i]]]

\* p moves no field past another field of the same key
KeepsKeyOrder(fields, p) ==
    \A i, j \in 1..Len(fields) :
        (i < j /\ fields[p[i]] # << >> /\ fields[p[j]] # << >>
            /\ FieldKey(fields[p[i]]) = FieldKey(fields[p[j]])) => p[i] < p[j]

OnePartPerKey(parts, K) ==
    /\ Len(parts) = Cardinality(K)
    /\ { FieldKey(parts[i]) : i \in 1..Len(parts) } = K
    /\ \A i \in 1..(Len(parts) - 1) :
           StrLess(FieldKey(parts[i]), FieldKey(parts[i + 1]))

SameForReorderings(fields, out) ==
    \A p \in Permutations(1..Len(fields)) :
        KeepsKeyOrder(fields, p) =>
            normalize_query(Join(Reordered(fields, p), << "&" >>)) = out

\* C13: the normal form of a query has one part per distinct key, the
\* parts in strictly ascending order of their keys with '&' between them,
\* and it is the same for every reordering of the fields that moves only
\* fields of different keys past each other.
C13_OnePartPerKeyAscending ==
    fn_res.done =>
        /\ QueryKeys(fn_arg) = {} => fn_res.path = << >>
        /\ QueryKeys(fn_arg) # {} =>
               OnePartPerKey(Split(fn_res.path, "&"), QueryKeys(fn_arg))
        /\ SameForReorderings(Split(fn_arg, "&"), fn_res.path)

\* b=2&a=1&a= normalized to a=1&b=2
C13_Witness ==
    /\ fn_res.done
    /\ fn_arg = Join(<< F_b2, F_a1, F_a >>, << "&" >>)
    /\ fn_res.path = Join(<< F_a1, F_b2 >>, << "&" >>)

\* The non-blank values of key k in q, in order of occurrence
NonBlankValues(q, k) ==
    SelectSeq([i \in 1..Len(Split(q, "&")) |->
                  IF FieldKey(Split(q, "&")[i]) = k
                      /\ Split(q, "&")[i] # << >>
                  THEN partition(Split(q, "&")[i], "=").tail ELSE << >>],
              LAMBDA v : v # << >>)

PartOf(parts, k) ==
    parts[CHOOSE i \in 1..Len(parts) : FieldKey(parts[i]) = k]

\* C14: the part of a key is the bare key when all its values are blank,
\* and otherwise the key, '=', and its non-blank values in their order of
\* occurrence with ',' between them.
C14_BlankDroppedOrderKept ==
    fn_res.done =>
        \A k \in QueryKeys(fn_arg) :
            /\ \E i \in 1..Len(Split(fn_res.path, "&")) :
                   FieldKey(Split(fn_res.path, "&")[i]) = k
            /\ IF NonBlankValues(fn_arg, k) = << >>
               THEN PartOf(Split(fn_res.path, "&"), k) = k
               ELSE PartOf(Split(fn_res.path, "&"), k) =
                        k \o << "=" >>
                          \o Join(NonBlankValues(fn_arg, k), << "," >>)

\* a=2&b=&a=1 normalized to a=2,1&b: the values of a merged in their
\* order, b left as the bare key.
C14_Witness ==
    /\ fn_res.done
    /\ fn_arg = Join(<< F_a2, F_b, F_a1 >>, << "&" >>)
    /\ fn_res.path = << "a", "=", "2", ",", "1", "&", "b" >>

\* The path and the raw query the URL of a send was built from
PathAndQuery(c) ==
    CHOOSE pq \in AllPaths \X AllQueries :
        build_url(clients[c.client].base_url, pq[1], pq[2]) = c.url

\* What send c signs with this method, path, query and body in place of
\* its own, at the same date and with the same secret
SignedFor(c, method, path, query, body) ==
    request(clients[c.client], method,
            build_url(clients[c.client].base_url, path, query), body,
            c.language, c.sent.headers.xdate[2]).signed

BodyText(body) == json_dumps(IF body.some THEN body.v ELSE << >>)

IsReordering(q, r) ==
    \E p \in Permutations(1..Len(Split(q, "&"))) :
        Reordered(Split(q, "&"), p) = Split(r, "&")

MethodChangeResigns(c, path, query) ==
    \A m \in AllMethods :
        upper(m) # upper(c.method) =>
            SignedFor(c, m, path, query, c.body) # c.signed

PostBodyChangeResigns(c, path, query) ==
    \A b \in AllBodies :
        (upper(c.method) = "POST" /\ BodyText(b) # BodyText(c.body)) =>
            SignedFor(c, c.method, path, query, b) # c.signed

AnySingleChangeResigns(c, path, query) ==
    /\ MethodChangeResigns(c, path, query)
    /\ PostBodyChangeResigns(c, path, query)
    /\ \A p \in AllPaths \ {path} :
           SignedFor(c, c.method, p, query, c.body) # c.signed
    /\ \A q \in AllQueries \ {query} :
           IsReordering(query, q) =>
               SignedFor(c, c.method, path, q, c.body) # c.signed

ChangeOfWhatIsSignedResigns(c, path, query) ==
    /\ MethodChangeResigns(c, path, query)
    /\ PostBodyChangeResigns(c, path, query)
    /\ \A p \in AllPaths :
           ~strip_env_prefix(p).raised =>
               (SignedFor(c, c.method, p, query, c.body) # c.signed
                    <=> strip_env_prefix(p).path # strip_env_prefix(path).path)
    /\ \A q \in AllQueries :
           (SignedFor(c, c.method, path, q, c.body) # c.signed
                <=> normalize_query(unquote(q)) # normalize_query(unquote(query)))
    /\ \A q \in AllQueries :
           (\E p \in Permutations(1..Len(Split(query, "&"))) :
                /\ KeepsKeyOrder(Split(query, "&"), p)
                /\ Reordered(Split(query, "&"), p) = Split(q, "&")) =>
               SignedFor(c, c.method, path, q, c.body) = c.signed

C16_SixLinesInOrder ==
    \A i \in Slots :
        calls[i].signed.some =>
            /\ Len(calls[i].signed.v) = 6
            /\ \E t \in 0..now : calls[i].signed.v[1] = << "x-date: ", strftime(t) >>
            /\ calls[i].sent.some =>
                   calls[i].signed.v[1] = << "x-date: ", calls[i].sent.headers.xdate >>
            /\ calls[i].signed.v[2] = upper(calls[i].method)
            /\ calls[i].signed.v[3] = "application/json"
            /\ calls[i].signed.v[4] = "application/json"
            /\ calls[i].signed.v[5] =
                   IF upper(calls[i].method) = "POST"
                   THEN content_digest(BodyText(calls[i].body)) ELSE << >>
            /\ calls[i].signed.v[6] = signing_path(calls[i].url).path

\* The six lines of a POST of {"a":1} to /release/x?b=2&a=1 at second 1
C16_Witness ==
    /\ calls[1].pc = "inflight"
    /\ calls[1].signed.v =
           << << "x-date: ", << "GMT", 1 >> >>, "POST", "application/json",
              "application/json", content_digest(T_a),
              P_x \o << "?" >> \o Q_ab >>

\* C17: for a URL with a raw query the path signed is the stripped path,
\* '?' and the normal form of the query, also when that normal form is
\* empty; for a URL without a query it is the stripped path.
C17_QueryMarkAlwaysAppended ==
    \A i \in Slots :
        (calls[i].signed.some /\ absolute(urlparse(calls[i].url))) =>
            calls[i].signed.v[6] =
                IF PathAndQuery(calls[i])[2] # << >>
                THEN strip_env_prefix(PathAndQuery(calls[i])[1]).path
                         \o << "?" >>
                         \o normalize_query(unquote(PathAndQuery(calls[i])[2]))
                ELSE strip_env_prefix(PathAndQuery(calls[i])[1]).path

\* C18: no send ends in the IndexError of the prefix removal, and every
\* path signed begins with '/'.
C18_SigningPathIsTotal ==
    \A i \in Slots :
        absolute(urlparse(calls[i].url)) =>
            /\ calls[i].outcome.kind # "IndexError"
            /\ calls[i].signed.some => calls[i].signed.v[6][1] = "/"

\* C19: every client constructed holds a non-empty key, a non-empty secret
\* and a non-empty base URL.
C19_FieldsStayNonEmpty ==
    \A c \in 1..Len(clients) :
        /\ clients[c].api_key # ""
        /\ clients[c].api_secret # ""
        /\ clients[c].base_url # << >>

\* C20: a send with a method other than GET or POST in either letter case
\* ends in an error before anything is dispatched; get and GET dispatch a
\* GET, post and POST a POST.
C20_OtherMethodsRejected ==
    \A i \in Slots :
        (calls[i].pc # "idle" /\ calls[i].method # "") =>
            /\ calls[i].method \notin {"get", "GET", "post", "POST"} =>
                   /\ calls[i].pc = "done"
                   /\ calls[i].outcome.kind \in {"ValueError", "IndexError"}
                   /\ ~calls[i].sent.some
                   /\ calls[i].dispatches = 0
            /\ (calls[i].method \in {"get", "GET"} /\ calls[i].signed.some) =>
                   /\ calls[i].pc = "inflight"
                   /\ calls[i].sent.verb = "GET"
            /\ (calls[i].method \in {"post", "POST"} /\ calls[i].signed.some) =>
                   /\ calls[i].pc = "inflight"
                   /\ calls[i].sent.verb = "POST"

\* A PUT that signed its string and ended in ValueError with nothing
\* dispatched.
C20_Witness ==
    /\ calls[1].pc = "done"
    /\ calls[1].method = "PUT"
    /\ calls[1].signed.some
    /\ calls[1].outcome.kind = "ValueError"
    /\ ~calls[1].sent.some

\* C21: the content of a POST handed to the HTTP client is the compact
\* JSON text of the body (of {} without one), and the digest line of the
\* string signed is the digest of this very text; a GET is handed no
\* content, whatever body was passed.
C21_BodySentIsBodySigned ==
    \A i \in Slots :
        calls[i].sent.some =>
            /\ calls[i].sent.verb = "POST" =>
                   /\ calls[i].sent.content.some
                   /\ calls[i].sent.content.v = BodyText(calls[i].body)
                   /\ calls[i].signed.v[5]
                          = content_digest(calls[i].sent.content.v)
            /\ calls[i].sent.verb = "GET" => calls[i].sent.content = NoText

\* A POST of {"b":2,"a":1} in flight: the content is the text in the
\* caller's key order, and the digest signed is the digest of it.
C21_Witness ==
    /\ calls[1].pc = "inflight"
    /\ calls[1].sent.verb = "POST"
    /\ calls[1].body = SomeBody(B_ba)
    /\ calls[1].sent.content = SomeText(json_dumps(B_ba))
    /\ calls[1].signed.v[5] = content_digest(json_dumps(B_ba))

\* The x-date header of a dispatched request is the date of the first
\* line of the string signed, and the Authorization header holds the
\* signature of that string.
DateSentIsDateSigned(c) ==
    /\ c.signed.some
    /\ c.signed.v[1] = << "x-date: ", c.sent.headers.xdate >>
    /\ c.sent.headers.Authorization.signature
           = signature(clients[c.client].api_secret, c.signed.v)

\* C22 as stated: the x-date header of every dispatched request is the
\* date signed, and no two sends carry the same date.
C22_DateNeverReused ==
    \A i \in Slots :
        calls[i].sent.some =>
            /\ DateSentIsDateSigned(calls[i])
            /\ \A j \in Slots \ {i} :
                   calls[j].sent.some =>
                       calls[j].sent.headers.xdate # calls[i].sent.headers.xdate

\* C22 as amended: the x-date header of every dispatched request is the
\* date signed, and it is the clock's second at this send's own dispatch,
\* never a date kept from an earlier send; sends dispatched within the
\* same second carry the same date.
C22_DateReadAtEachSend ==
    [][\A i \in Slots :
           calls'[i].sent.some =>
               /\ DateSentIsDateSigned(calls[i])'
               /\ calls[i].pc = "idle" =>
                      calls'[i].sent.headers.xdate = << "GMT", now >>
               /\ calls[i].pc # "idle" =>
                      calls'[i].sent.headers.xdate = calls[i].sent.headers.xdate
      ]_vars

\* Two sends in flight, one dispatched in second 0 and one in second 1,
\* each with the date it signed.
C22_Witness ==
    /\ calls[1].pc = "inflight"
    /\ calls[2].pc = "inflight"
    /\ now = 1
    /\ calls[1].sent.headers.xdate = << "GMT", 0 >>
    /\ calls[2].sent.headers.xdate = << "GMT", 1 >>
    /\ DateSentIsDateSigned(calls[1])
    /\ DateSentIsDateSigned(calls[2])

\* C23: the query signed is the normal form of the keys and values of the
\* raw query of the URL dispatched, split on '&' and '=' first and
\* percent-decoded once afterwards.
C23_DecodedOnceAfterSplitting ==
    \A i \in Slots :
        (calls[i].sent.some /\ absolute(urlparse(calls[i].sent.url))
            /\ normalize_pairs(parse_qsl(urlparse(calls[i].sent.url).query))
                   # << >>) =>
            calls[i].signed.v[6] =
                strip_env_prefix(urlparse(calls[i].sent.url).path).path
                    \o << "?" >>
                    \o normalize_pairs(
                           parse_qsl(urlparse(calls[i].sent.url).query))

====
